---- MODULE Spec2Model ----
(***************************************************************************)
(* Model of app.py, the IPv4 subnet calculator: parse_input,               *)
(* get_parent_network, get_host_range, format_ipcalc and the index route.  *)
(*                                                                         *)
(* A 32-bit address is kept as the pair <<hi, lo>> of its 16-bit halves,   *)
(* because the model checker's integers are 32-bit signed and addresses    *)
(* from 128.0.0.0 up (and 2^32 itself) do not fit.  Text is kept at the    *)
(* level of its fields: a token is the sequence of its dot-separated       *)
(* decimal fields (<<10,0,0,5>> is "10.0.0.5", <<24>> is "24"), a field    *)
(* that is not a run of ASCII digits is NonDigit, and a page text is a     *)
(* sequence of one-character strings.  A value the code computes once and *)
(* uses several times is handed on as an operator parameter.               *)
(***************************************************************************)
EXTENDS Integers, Sequences, FiniteSets, TLC

\* ------------------------------------------------------------------ bounds

\* Largest prefix-length field written after "/" (33 is already invalid).
MaxPrefixText == 33
\* Largest page number the form field is filled with (total_pages <= 13).
MaxPageText == 14

\* --------------------------------------------------------------- constants

ITEMS_PER_PAGE == 20
PAGES_BEFORE_AFTER == 10

\* ------------------------------------------------- 32-bit integer arithmetic

Half == 2^16
Byte == 2^8

Max(a, b) == IF a >= b THEN a ELSE b
Min(a, b) == IF a <= b THEN a ELSE b

RECURSIVE BitAnd(_, _, _)
BitAnd(x, y, n) ==
    IF n = 0 THEN 0
    ELSE (x % 2) * (y % 2) + 2 * BitAnd(x \div 2, y \div 2, n - 1)

RECURSIVE BitOr(_, _, _)
BitOr(x, y, n) ==
    IF n = 0 THEN 0
    ELSE Max(x % 2, y % 2) + 2 * BitOr(x \div 2, y \div 2, n - 1)

RECURSIVE BitXor(_, _, _)
BitXor(x, y, n) ==
    IF n = 0 THEN 0
    ELSE ((x + y) % 2) + 2 * BitXor(x \div 2, y \div 2, n - 1)

\* The bitwise operations of every pair of 4-bit digits, tabulated once; a
\* 16-bit half is combined digit by digit.
AndDigit == [x \in 0..15 |-> [y \in 0..15 |-> BitAnd(x, y, 4)]]
OrDigit == [x \in 0..15 |-> [y \in 0..15 |-> BitOr(x, y, 4)]]
XorDigit == [x \in 0..15 |-> [y \in 0..15 |-> BitXor(x, y, 4)]]

Combine16(tab, x, y) ==
    tab[x \div 4096][y \div 4096] * 4096
    + tab[(x \div 256) % 16][(y \div 256) % 16] * 256
    + tab[(x \div 16) % 16][(y \div 16) % 16] * 16
    + tab[x % 16][y % 16]

And16(x, y) == Combine16(AndDigit, x, y)
Or16(x, y) == Combine16(OrDigit, x, y)
Xor16(x, y) == Combine16(XorDigit, x, y)

And32(a, b) == <<And16(a[1], b[1]), And16(a[2], b[2])>>
Or32(a, b) == <<Or16(a[1], b[1]), Or16(a[2], b[2])>>
Xor32(a, b) == <<Xor16(a[1], b[1]), Xor16(a[2], b[2])>>

\* a + n for a machine-size n >= 0; the high half is left unreduced, so a
\* sum past 2^32 - 1 shows as hi >= 2^16.
AddInt(a, n) ==
    LET lo == a[2] + (n % Half)
    IN  <<a[1] + (n \div Half) + (lo \div Half), lo % Half>>

\* a - n for a machine-size n with 0 <= n <= a.
SubInt(a, n) ==
    LET lo == a[2] - (n % Half)
        borrow == IF lo < 0 THEN 1 ELSE 0
    IN  <<a[1] - (n \div Half) - borrow, lo + borrow * Half>>

\* a - b for b <= a.
Sub32(a, b) ==
    LET borrow == IF a[2] < b[2] THEN 1 ELSE 0
    IN  <<a[1] - b[1] - borrow, a[2] - b[2] + borrow * Half>>

Le32(a, b) == a[1] < b[1] \/ (a[1] = b[1] /\ a[2] <= b[2])

\* a >> k and (a << 1) & 0xFFFFFFFF.
Shr32(a, k) ==
    IF k >= 32 THEN <<0, 0>>
    ELSE IF k >= 16 THEN <<0, a[1] \div 2^(k - 16)>>
    ELSE <<a[1] \div 2^k, (a[2] \div 2^k) + (a[1] % 2^k) * 2^(16 - k)>>

Shl1(a) == <<((a[1] * 2) % Half) + ((a[2] * 2) \div Half), (a[2] * 2) % Half>>

\* As a machine integer, for values known to fit.
AsInt(a) == a[1] * Half + a[2]

ALL_ONES == <<Half - 1, Half - 1>>

\* ----------------------------------------------------------- ipaddress

NonDigit == 0 - 1

Ok(v) == [err |-> "", val |-> v]
Raise(e) == [err |-> e]
Raised(r) == r.err # ""

\* try: r / except: other
OrElse(r, other) == IF Raised(r) THEN other ELSE r

\* IPv4Address._ip_int_from_string: exactly four fields, each a run of
\* digits worth at most 255, read big-endian.
ip_int_from_string(tok) ==
    IF Len(tok) # 4 THEN Raise("AddressValueError")
    ELSE IF \E i \in 1..4 : tok[i] = NonDigit \/ tok[i] > 255
         THEN Raise("AddressValueError")
    ELSE Ok(<<tok[1] * Byte + tok[2], tok[3] * Byte + tok[4]>>)

\* str(IPv4Address): the four bytes, big-endian, dot-joined.
string_from_ip_int(a) ==
    <<a[1] \div Byte, a[1] % Byte, a[2] \div Byte, a[2] % Byte>>

\* packed[0]
first_byte(a) == a[1] \div Byte

\* _ip_int_from_prefix: ALL_ONES ^ (ALL_ONES >> prefixlen)
ip_int_from_prefix(prefixlen) == Xor32(ALL_ONES, Shr32(ALL_ONES, prefixlen))

RECURSIVE count_righthand_zero_bits(_, _)
count_righthand_zero_bits(number, bits) ==
    IF number = <<0, 0>> THEN bits
    ELSE IF number[2] % 2 = 1 THEN 0
    ELSE Min(bits, 1 + count_righthand_zero_bits(Shr32(number, 1), bits))

\* _prefix_from_ip_int: with t trailing zero bits, prefixlen = 32 - t, and
\* ip_int >> t must be (1 << prefixlen) - 1, which is ALL_ONES >> t.
leading_ones_check(ip_int, trailing_zeroes) ==
    IF Shr32(ip_int, trailing_zeroes) # Shr32(ALL_ONES, trailing_zeroes)
    THEN Raise("ValueError")
    ELSE Ok(32 - trailing_zeroes)

prefix_from_ip_int(ip_int) ==
    leading_ones_check(ip_int, Min(32, count_righthand_zero_bits(ip_int, 32)))

\* _prefix_from_prefix_string: ASCII digits only, value in 0..32.
prefix_from_prefix_string(tok) ==
    IF Len(tok) # 1 \/ tok[1] = NonDigit THEN Raise("NetmaskValueError")
    ELSE IF tok[1] > 32 THEN Raise("NetmaskValueError")
    ELSE Ok(tok[1])

\* _prefix_from_ip_string: a netmask, and failing that a hostmask.
netmask_or_hostmask(ip) ==
    IF Raised(ip) THEN Raise("NetmaskValueError")
    ELSE OrElse(prefix_from_ip_int(ip.val),
                OrElse(prefix_from_ip_int(Xor32(ip.val, ALL_ONES)),
                       Raise("NetmaskValueError")))

prefix_from_ip_string(tok) == netmask_or_hostmask(ip_int_from_string(tok))

\* _make_netmask for a string argument.
make_netmask(tok) ==
    OrElse(prefix_from_prefix_string(tok), prefix_from_ip_string(tok))

Network(address, prefixlen) == [address |-> address, prefixlen |-> prefixlen]

\* IPv4Network.__init__ once the address and the mask are read: host bits
\* raise when strict and are cleared otherwise.
check_host_bits(packed, masked, prefixlen, strict) ==
    IF masked # packed
    THEN IF strict THEN Raise("ValueError") ELSE Ok(Network(masked, prefixlen))
    ELSE Ok(Network(packed, prefixlen))

network_of(a, p, strict) ==
    IF Raised(a) THEN a
    ELSE IF Raised(p) THEN p
    ELSE check_host_bits(a.val, And32(a.val, ip_int_from_prefix(p.val)), p.val, strict)

\* IPv4Network("addr/mask", strict): the address first, then the mask.
IPv4Network(addr, mask, strict) ==
    network_of(ip_int_from_string(addr), make_netmask(mask), strict)

netmask(net) == ip_int_from_prefix(net.prefixlen)
hostmask(net) == Xor32(netmask(net), ALL_ONES)
broadcast_address(net) == Or32(net.address, hostmask(net))

\* num_addresses = int(broadcast_address) - int(network_address) + 1, up
\* to 2^32 (kept as a pair whose high half may be 2^16).
num_addresses(net) == AddInt(Sub32(broadcast_address(net), net.address), 1)

\* supernet(): one bit wider, the base re-masked with netmask << 1.
supernet(net) ==
    IF net.prefixlen = 0 THEN net
    ELSE Network(And32(net.address, Shl1(netmask(net))), net.prefixlen - 1)

\* ----------------------------------------------------------- parse_input

None == [none |-> TRUE]

\* An input text: surrounding whitespace or not, the token left of the
\* separator, the separator ("/", " " or "" for a single token) and the
\* token right of it.
Text(ws, left, sep, right) == [ws |-> ws, left |-> left, sep |-> sep, right |-> right]
EmptyText == Text(FALSE, <<>>, "", <<>>)

\* except (ValueError, ipaddress.AddressValueError): return None
OrNone(r) == IF Raised(r) THEN None ELSE r.val

\* The wildcard branch falling back to the address as a host when the
\* mask cannot be read.
wildcard_or_host(ip_part, wildcard) ==
    IF Raised(wildcard) THEN OrNone(IPv4Network(ip_part, <<32>>, FALSE))
    ELSE OrNone(OrElse(IPv4Network(ip_part,
                                   string_from_ip_int(Sub32(ALL_ONES, wildcard.val)),
                                   FALSE),
                       IPv4Network(ip_part, <<32>>, FALSE)))

\* Lines 53-61: the second token read as a wildcard mask.
wildcard_network_of(ip_part, wildcard) ==
    IF Raised(wildcard) THEN None
    ELSE OrNone(IPv4Network(ip_part,
                            string_from_ip_int(Sub32(ALL_ONES, wildcard.val)),
                            FALSE))

\* Lines 49-61: the subnet mask first, the wildcard mask if that raises.
mask_or_wildcard(ip_part, mask_part, as_subnet_mask) ==
    IF ~Raised(as_subnet_mask) THEN as_subnet_mask.val
    ELSE wildcard_network_of(ip_part, ip_int_from_string(mask_part))

\* parse_input with strict left at its default in the CIDR branch.
parse_input_strict(t) ==
    IF t = EmptyText THEN None
    ELSE IF t.sep = "/" THEN OrNone(IPv4Network(t.left, t.right, TRUE))
    ELSE IF t.sep = " "
         THEN mask_or_wildcard(t.left, t.right, IPv4Network(t.left, t.right, FALSE))
    ELSE OrNone(IPv4Network(t.left, <<32>>, FALSE))

\* parse_input with the two-token branch never entered (len(parts) == 3):
\* both tokens then go, as one string, to the "/32" default.
parse_input_no_mask_branch(t) ==
    IF t = EmptyText THEN None
    ELSE IF t.sep = "/" THEN OrNone(IPv4Network(t.left, t.right, FALSE))
    ELSE IF t.sep = " " THEN None
    ELSE OrNone(IPv4Network(t.left, <<32>>, FALSE))

parse_input(t) ==
    IF t = EmptyText THEN None
    ELSE IF t.sep = "/" THEN OrNone(IPv4Network(t.left, t.right, FALSE))
    ELSE IF t.sep = " "
         THEN mask_or_wildcard(t.left, t.right, IPv4Network(t.left, t.right, FALSE))
    ELSE OrNone(IPv4Network(t.left, <<32>>, FALSE))

\* ------------------------------------------------------ get_parent_network

RECURSIVE get_supernet_to_prefix(_, _)
get_supernet_to_prefix(current, target_prefix) ==
    IF current.prefixlen > target_prefix
    THEN get_supernet_to_prefix(supernet(current), target_prefix)
    ELSE current

\* get_parent_network reading the last byte for the /8 (packed[3]).
parent_from_last_byte(net) ==
    IF net.prefixlen > 24 THEN get_supernet_to_prefix(net, 24)
    ELSE IF net.prefixlen > 16 THEN get_supernet_to_prefix(net, 16)
    ELSE IF net.prefixlen > 8 THEN get_supernet_to_prefix(net, 8)
    ELSE IPv4Network(<<net.address[2] % Byte, 0, 0, 0>>, <<8>>, TRUE).val

\* get_parent_network with >= for > at the class boundaries.
parent_at_boundary(net) ==
    IF net.prefixlen >= 24 THEN get_supernet_to_prefix(net, 24)
    ELSE IF net.prefixlen >= 16 THEN get_supernet_to_prefix(net, 16)
    ELSE IF net.prefixlen >= 8 THEN get_supernet_to_prefix(net, 8)
    ELSE IPv4Network(<<first_byte(net.address), 0, 0, 0>>, <<8>>, TRUE).val

get_parent_network(net) ==
    IF net.prefixlen > 24 THEN get_supernet_to_prefix(net, 24)
    ELSE IF net.prefixlen > 16 THEN get_supernet_to_prefix(net, 16)
    ELSE IF net.prefixlen > 8 THEN get_supernet_to_prefix(net, 8)
    ELSE IPv4Network(<<first_byte(net.address), 0, 0, 0>>, <<8>>, TRUE).val

\* ---------------------------------------------------------- get_host_range

\* get_host_range with >= 2 for > 2.
host_range_from_two(net) ==
    IF ~Le32(num_addresses(net), <<0, 1>>)
    THEN <<AddInt(net.address, 1), SubInt(broadcast_address(net), 1)>>
    ELSE <<net.address, net.address>>

get_host_range(net) ==
    IF ~Le32(num_addresses(net), <<0, 2>>)
    THEN <<AddInt(net.address, 1), SubInt(broadcast_address(net), 1)>>
    ELSE <<net.address, net.address>>

\* ------------------------------------------------------------- page text

Digits == <<"0", "1", "2", "3", "4", "5", "6", "7", "8", "9">>
IsDigit(c) == \E i \in 1..10 : Digits[i] = c
DigitVal(c) == (CHOOSE i \in 1..10 : Digits[i] = c) - 1

RECURSIVE DigitsValue(_)
DigitsValue(s) ==
    IF s = <<>> THEN 0
    ELSE 10 * DigitsValue(SubSeq(s, 1, Len(s) - 1)) + DigitVal(s[Len(s)])

\* int(text): an optional sign, then one or more digits.
int_of_digits(negative, body) ==
    IF body = <<>> \/ \E i \in 1..Len(body) : ~IsDigit(body[i])
    THEN Raise("ValueError")
    ELSE Ok(IF negative THEN 0 - DigitsValue(body) ELSE DigitsValue(body))

PyInt(s) ==
    IF s # <<>> /\ s[1] \in {"-", "+"} THEN int_of_digits(s[1] = "-", Tail(s))
    ELSE int_of_digits(FALSE, s)

\* ----------------------------------------------------------- format_ipcalc

\* f"{n:,}": the decimal digits in groups of three, most significant first;
\* n is a pair (up to 2^32), divided by 1000 one half at a time.
Div1000(n) ==
    <<n[1] \div 1000, ((n[1] % 1000) * Half + n[2]) \div 1000>>
Mod1000(n) == ((n[1] % 1000) * Half + n[2]) % 1000

RECURSIVE Thousands(_)
Thousands(n) ==
    IF n[1] = 0 /\ n[2] < 1000 THEN <<n[2]>>
    ELSE Append(Thousands(Div1000(n)), Mod1000(n))

\* max(0, hosts_total - 2)
hosts_usable(hosts_total) ==
    IF Le32(hosts_total, <<0, 2>>) THEN <<0, 0>> ELSE SubInt(hosts_total, 2)

ip_class(first_octet) ==
    IF first_octet <= 127 THEN "A"
    ELSE IF first_octet <= 191 THEN "B"
    ELSE IF first_octet <= 223 THEN "C"
    ELSE IF first_octet <= 239 THEN "D" ELSE "E"

\* A row of all_nets (lines 209-216 and 223-230).
Row(subnet, range, is_current, index, subnet_page) ==
    [network |-> string_from_ip_int(subnet.address),
     range |-> <<string_from_ip_int(range[1]), string_from_ip_int(range[2])>>,
     broadcast |-> string_from_ip_int(broadcast_address(subnet)),
     is_current |-> is_current,
     index |-> index,
     page |-> subnet_page]

\* Lines 207-216, for the subnet of one index.
row_of_subnet(net, subnet, idx) ==
    Row(subnet, get_host_range(subnet), subnet = net, idx,
        (idx \div ITEMS_PER_PAGE) + 1)

\* Lines 203-205: the subnet at index idx of the parent.
SubnetEntry(net, parent, idx) ==
    row_of_subnet(net,
        IPv4Network(string_from_ip_int(
                        AddInt(parent.address, idx * 2^(32 - net.prefixlen))),
                    <<net.prefixlen>>, FALSE).val,
        idx)

\* Line 204: IPv4Address(network_int) raises AddressValueError, a ValueError,
\* for a network_int past 0xFFFFFFFF.
rows_raise(net, parent, start_index, end_index) ==
    \E idx \in start_index..(end_index - 1) :
        AddInt(parent.address, idx * 2^(32 - net.prefixlen))[1] >= Half

\* Lines 202-216: range(start_index, end_index).
window_rows(net, parent, start_index, end_index) ==
    IF rows_raise(net, parent, start_index, end_index) THEN <<>>
    ELSE [k \in 1..Max(0, end_index - start_index) |->
            SubnetEntry(net, parent, start_index + k - 1)]

\* Lines 175-177 and 180-181.
total_subnets_of(prefix_diff) == IF prefix_diff > 0 THEN 2^prefix_diff ELSE 0

total_pages_of(total_subnets) ==
    Max(1, (total_subnets + ITEMS_PER_PAGE - 1) \div ITEMS_PER_PAGE)

\* current_index without the division by subnet_size.
current_index_as_offset(net, parent) ==
    AsInt(Sub32(net.address, parent.address))

current_index_of(net, parent) ==
    AsInt(Sub32(net.address, parent.address)) \div 2^(32 - net.prefixlen)

\* center_page without the lower clamp.
center_page_no_floor(requested_page, current_index, total_pages) ==
    IF requested_page # <<>> /\ ~Raised(PyInt(requested_page))
    THEN Min(PyInt(requested_page).val, total_pages)
    ELSE (current_index \div ITEMS_PER_PAGE) + 1

\* center_page falling back to page 1 when int() raises.
center_page_first_on_error(requested_page, current_index, total_pages) ==
    IF requested_page # <<>>
    THEN IF Raised(PyInt(requested_page)) THEN 1
         ELSE Max(1, Min(PyInt(requested_page).val, total_pages))
    ELSE (current_index \div ITEMS_PER_PAGE) + 1

\* Lines 184-190: the requested page if it is there and int() reads it,
\* clamped, and else the page of the network itself.
center_page_of(requested_page, current_index, total_pages) ==
    IF requested_page # <<>> /\ ~Raised(PyInt(requested_page))
    THEN Max(1, Min(PyInt(requested_page).val, total_pages))
    ELSE (current_index \div ITEMS_PER_PAGE) + 1

\* The window with end_index = end_page * ITEMS_PER_PAGE, not capped at
\* total_subnets.
window_uncapped(net, parent, total_subnets, total_pages, current_index, center_page) ==
    [total_subnets |-> total_subnets,
     total_pages |-> total_pages,
     current_index |-> current_index,
     current_page |-> center_page,
     start_page |-> Max(1, center_page - PAGES_BEFORE_AFTER),
     end_page |-> Min(total_pages, center_page + PAGES_BEFORE_AFTER),
     raised |->
        rows_raise(net, parent,
            (Max(1, center_page - PAGES_BEFORE_AFTER) - 1) * ITEMS_PER_PAGE,
            Min(total_pages, center_page + PAGES_BEFORE_AFTER) * ITEMS_PER_PAGE),
     all_nets |->
        window_rows(net, parent,
            (Max(1, center_page - PAGES_BEFORE_AFTER) - 1) * ITEMS_PER_PAGE,
            Min(total_pages, center_page + PAGES_BEFORE_AFTER) * ITEMS_PER_PAGE)]

\* Lines 193-216, once the counts and the centre page are known.
window_around(net, parent, total_subnets, total_pages, current_index, center_page) ==
    [total_subnets |-> total_subnets,
     total_pages |-> total_pages,
     current_index |-> current_index,
     current_page |-> center_page,
     start_page |-> Max(1, center_page - PAGES_BEFORE_AFTER),
     end_page |-> Min(total_pages, center_page + PAGES_BEFORE_AFTER),
     raised |->
        rows_raise(net, parent,
            (Max(1, center_page - PAGES_BEFORE_AFTER) - 1) * ITEMS_PER_PAGE,
            Min(total_subnets,
                Min(total_pages, center_page + PAGES_BEFORE_AFTER) * ITEMS_PER_PAGE)),
     all_nets |->
        window_rows(net, parent,
            (Max(1, center_page - PAGES_BEFORE_AFTER) - 1) * ITEMS_PER_PAGE,
            Min(total_subnets,
                Min(total_pages, center_page + PAGES_BEFORE_AFTER) * ITEMS_PER_PAGE))]

centred(net, parent, requested_page, total_subnets, total_pages, current_index) ==
    window_around(net, parent, total_subnets, total_pages, current_index,
        center_page_of(requested_page, current_index, total_pages))

\* Lines 172-216, the try block.
subnet_list(net, parent, requested_page, total_subnets) ==
    centred(net, parent, requested_page, total_subnets,
        total_pages_of(total_subnets), current_index_of(net, parent))

\* Lines 164-170 and 221-230: the defaults and the one-row list.
only_current(net, host) ==
    [total_subnets |-> 0,
     total_pages |-> 1,
     current_index |-> 0,
     current_page |-> 1,
     start_page |-> 1,
     end_page |-> 1,
     all_nets |-> <<Row(net, host, TRUE, 0, 1)>>]

\* Lines 266-293 (the fields that only restate others in binary or prose,
\* binary_mask, binary_id, ip_type, in_addr, parent_desc and vertical, are
\* left out).
record_of(net, host, show_subnet_list, w) ==
    [network |-> string_from_ip_int(net.address),
     host_min |-> string_from_ip_int(host[1]),
     host_max |-> string_from_ip_int(host[2]),
     broadcast |-> string_from_ip_int(broadcast_address(net)),
     hosts_usable |-> Thousands(hosts_usable(num_addresses(net))),
     netmask |-> string_from_ip_int(netmask(net)),
     wildcard |-> string_from_ip_int(Xor32(netmask(net), ALL_ONES)),
     ip_class |-> ip_class(first_byte(net.address)),
     cidr_full |-> <<string_from_ip_int(net.address), net.prefixlen>>,
     all_nets |-> w.all_nets,
     show_subnet_list |-> show_subnet_list,
     items_per_page |-> ITEMS_PER_PAGE,
     total_pages |-> w.total_pages,
     current_page |-> w.current_page,
     total_subnets |-> IF show_subnet_list THEN w.total_subnets ELSE Len(w.all_nets),
     window_start_page |-> IF show_subnet_list THEN w.start_page ELSE 1,
     window_end_page |-> IF show_subnet_list THEN w.end_page ELSE 1,
     current_index |-> IF show_subnet_list THEN w.current_index ELSE 0]

\* Lines 217-230: on ValueError the list is dropped for the one-row list,
\* and the page counts keep what the try block had assigned.
after_try(net, host, w) ==
    IF w.raised
    THEN record_of(net, host, FALSE,
            [w EXCEPT !.all_nets = <<Row(net, host, TRUE, 0, 1)>>])
    ELSE record_of(net, host, TRUE, w)

format_with(net, host, parent, requested_page) ==
    IF parent.prefixlen < net.prefixlen
    THEN after_try(net, host,
            subnet_list(net, parent, requested_page,
                total_subnets_of(net.prefixlen - parent.prefixlen)))
    ELSE record_of(net, host, FALSE, only_current(net, host))

format_ipcalc(net, requested_page) ==
    format_with(net, get_host_range(net), get_parent_network(net), requested_page)

\* ------------------------------------------------------------------ state

VARIABLES
    pc,       \* "idle", "request" (one has arrived), "rendered" (index() is done)
    method,   \* request.method, "" while idle
    cidr,     \* request.form "cidr", then the cidr handed to the template
    page,     \* request.form "page"
    net,      \* what parse_input returned, None if it was not called
    result,   \* the record handed to the template, or None
    error     \* the message handed to the template, "None" when there is none

vars == <<pc, method, cidr, page, net, result, error>>

\* ------------------------------------------------------------------ inputs

Addrs == {<<0, 0, 0, 0>>, <<10, 10, 10, 1>>, <<172, 16, 77, 130>>,
          <<192, 168, 255, 255>>, <<255, 255, 255, 255>>}

BadAddrs == {<<10, 10, 1>>, <<10, 10, 10, 1, 1>>, <<10, 256, 10, 1>>,
             <<10, NonDigit, 10, 1>>}

\* str(n) for n >= 0.
RECURSIVE DecimalText(_)
DecimalText(n) ==
    IF n < 10 THEN <<Digits[n + 1]>>
    ELSE Append(DecimalText(n \div 10), Digits[(n % 10) + 1])

\* The dotted subnet mask and the dotted wildcard mask of prefix length p.
MaskOf(p) ==
    string_from_ip_int(IF p <= 16 THEN <<Half - 2^(16 - p), 0>>
                       ELSE <<Half - 1, Half - 2^(32 - p)>>)
WildcardOf(p) ==
    string_from_ip_int(IF p <= 16 THEN <<2^(16 - p) - 1, Half - 1>>
                       ELSE <<0, 2^(32 - p) - 1>>)

\* Dotted masks that are neither ones-then-zeros nor the complement of it,
\* and tokens that are no mask at all.
BadMasks == {<<255, 0, 255, 0>>, <<0, 255, 0, 255>>, <<255, 255, 255, 253>>,
             <<0, 0, 1, 0>>, <<128, 0, 0, 1>>, <<255, 255, 0>>,
             <<256, 0, 0, 0>>, <<NonDigit>>}

CidrTexts == {Text(FALSE, a, "/", <<p>>) : a \in Addrs, p \in 0..MaxPrefixText}

MaskTexts ==
    {Text(FALSE, a, sep, m) :
        a \in Addrs, sep \in {"/", " "},
        m \in {MaskOf(p) : p \in 0..32} \cup {WildcardOf(p) : p \in 0..32}}

OtherTexts ==
    {EmptyText, Text(TRUE, <<>>, "", <<>>)}
    \cup {Text(ws, a, "", <<>>) : ws \in BOOLEAN, a \in Addrs \cup BadAddrs}
    \cup {Text(FALSE, a, " ", <<p>>) : a \in Addrs, p \in {0, 24, 32, 33}}
    \cup {Text(FALSE, a, sep, m) : a \in Addrs, sep \in {"/", " "}, m \in BadMasks}
    \cup {Text(FALSE, a, sep, m) :
            a \in BadAddrs, sep \in {"/", " "}, m \in {<<24>>, MaskOf(24), WildcardOf(24)}}
    \cup {Text(FALSE, a, "/", <<>>) : a \in Addrs} \cup {Text(FALSE, <<>>, "/", <<24>>)}

PageTexts ==
    {DecimalText(n) : n \in 0..MaxPageText}
    \cup {<<>>, <<"-", "1">>, <<"+", "2">>, <<"x">>, <<"1", "x">>, <<"-">>}

\* ----------------------------------------------------------------- actions

Init ==
    /\ pc = "idle"
    /\ method = ""
    /\ cidr = EmptyText
    /\ page = <<>>
    /\ net = None
    /\ result = None
    /\ error = "None"

\* A request arrives: flask fills request.method and request.form.
Receive ==
    /\ pc = "idle"
    /\ pc' = "request"
    /\ \/ /\ method' = "GET"
          /\ cidr' = EmptyText
          /\ page' = <<>>
       \/ /\ method' = "POST"
          /\ \/ \E c \in CidrTexts, pg \in PageTexts : cidr' = c /\ page' = pg
             \/ \E c \in MaskTexts \cup OtherTexts : cidr' = c /\ page' = <<>>
    /\ UNCHANGED <<net, result, error>>

\* index(), GET: nothing is parsed, the form comes back empty.
IndexGet ==
    /\ pc = "request" /\ method = "GET"
    /\ pc' = "rendered"
    /\ cidr' = EmptyText
    /\ net' = None
    /\ result' = None
    /\ error' = "None"
    /\ UNCHANGED <<method, page>>

\* index(), POST: parse_input, then format_ipcalc or the error message.
IndexPost ==
    /\ pc = "request" /\ method = "POST"
    /\ pc' = "rendered"
    /\ net' = parse_input(cidr)
    /\ result' = IF net' # None THEN format_ipcalc(net', page) ELSE None
    /\ error' = IF net' # None THEN "None" ELSE "Invalid IP address or subnet mask."
    /\ UNCHANGED <<method, cidr, page>>

\* The response is sent and the request's locals are gone: nothing of one
\* request is kept for the next.
Return ==
    /\ pc = "rendered"
    /\ pc' = "idle"
    /\ method' = ""
    /\ cidr' = EmptyText
    /\ page' = <<>>
    /\ net' = None
    /\ result' = None
    /\ error' = "None"

Next == Receive \/ IndexGet \/ IndexPost \/ Return

Spec == Init /\ [][Next]_vars

\* -------------------------------------------------------------- properties

\* index() has answered a POST.
Rendered == pc = "rendered" /\ method = "POST"

ErrorMessage == "Invalid IP address or subnet mask."

\* A token of four fields in 0..255, and the 32-bit value it writes.
ValidAddr(tok) == Len(tok) = 4 /\ \A i \in 1..4 : tok[i] \in 0..255
AddrOf(tok) == <<tok[1] * Byte + tok[2], tok[3] * Byte + tok[4]>>
IsPrefix(tok) == Len(tok) = 1 /\ tok[1] \in 0..32

\* 2^(32 - p) as a pair, a with its low 32 - p bits cleared, and the last
\* address of the block of prefix length p that starts at a, by arithmetic.
BlockSize(p) == IF p <= 16 THEN <<2^(16 - p), 0>> ELSE <<0, 2^(32 - p)>>
ClearHostBits(a, p) ==
    IF p <= 16 THEN <<a[1] - (a[1] % 2^(16 - p)), 0>>
    ELSE <<a[1], a[2] - (a[2] % 2^(32 - p))>>
Add32(a, b) == <<a[1] + b[1] + ((a[2] + b[2]) \div Half), (a[2] + b[2]) % Half>>
LastOf(a, p) == SubInt(Add32(a, BlockSize(p)), 1)

\* outer holds every address of inner.
Contains(outer, inner) ==
    /\ Le32(outer.address, inner.address)
    /\ Le32(LastOf(inner.address, inner.prefixlen),
            LastOf(outer.address, outer.prefixlen))

\* The input is the CIDR text of a well-formed address and a prefix 0..32.
CidrCase == Rendered /\ cidr.sep = "/" /\ ValidAddr(cidr.left) /\ IsPrefix(cidr.right)

\* C1: the CIDR text "a/p" of any address a and prefix length p in 0..32
\* parses to the network (a with the bits below the prefix cleared, p):
\* host bits are cleared, not rejected, and cidr_full is the aligned form.
C1_CidrAligned ==
    CidrCase =>
        /\ net # None
        /\ net = Network(ClearHostBits(AddrOf(cidr.left), cidr.right[1]), cidr.right[1])
        /\ result # None
        /\ result.cidr_full =
            <<string_from_ip_int(ClearHostBits(AddrOf(cidr.left), cidr.right[1])),
              cidr.right[1]>>

\* A /24 written with host bits set came back aligned.
C1_Witness ==
    /\ CidrCase
    /\ cidr.right[1] = 24
    /\ ClearHostBits(AddrOf(cidr.left), 24) # AddrOf(cidr.left)
    /\ net # None
    /\ net.address = ClearHostBits(AddrOf(cidr.left), 24)
    /\ result.cidr_full[1][4] = 0

\* C2 as stated: for every network parse_input returns, of any prefix
\* length 0..32, the parent wholly contains it.
C2_ParentContainsAlways ==
    (Rendered /\ net # None) => Contains(get_parent_network(net), net)

\* C2, amended: for prefix lengths 8..32 the parent wholly contains the
\* network; for prefix lengths 0..7 the parent is the /8 at the network's own
\* base address, which lies inside the network.
C2_ParentContains ==
    (Rendered /\ net # None) =>
        IF net.prefixlen >= 8
        THEN Contains(get_parent_network(net), net)
        ELSE /\ get_parent_network(net) = Network(net.address, 8)
             /\ Contains(net, get_parent_network(net))

\* A /30 was resolved to the /24 around it.
C2_Witness ==
    /\ Rendered
    /\ net # None
    /\ net.prefixlen = 30
    /\ get_parent_network(net).prefixlen = 24
    /\ get_parent_network(net).address # net.address
    /\ Contains(get_parent_network(net), net)

\* C3 as stated: a network whose prefix length is exactly 8, 16 or 24 is
\* its own parent.
C3_BoundaryIsOwnParent ==
    (Rendered /\ net # None /\ net.prefixlen \in {8, 16, 24}) =>
        get_parent_network(net) = net

\* C3, amended: a /8 is its own parent; the parent of a /16 is the /8
\* around it and the parent of a /24 is the /16 around it.
C3_BoundaryParent ==
    (Rendered /\ net # None /\ net.prefixlen \in {8, 16, 24}) =>
        get_parent_network(net) =
            IF net.prefixlen = 8 THEN net
            ELSE Network(ClearHostBits(net.address, net.prefixlen - 8),
                         net.prefixlen - 8)

\* A /8 came back as its own parent.
C3_Witness ==
    /\ Rendered
    /\ net # None
    /\ net.prefixlen = 8
    /\ get_parent_network(net) = net

\* C4 as stated: for every address and every prefix length 0..32 the CIDR
\* text, the address with the dotted subnet mask and the address with the
\* dotted wildcard mask parse to the same network.
C4_ThreeNotationsAlways ==
    CidrCase =>
        /\ parse_input(Text(FALSE, cidr.left, " ", MaskOf(cidr.right[1]))) = net
        /\ parse_input(Text(FALSE, cidr.left, " ", WildcardOf(cidr.right[1]))) = net

\* C4, amended: the CIDR text and the subnet-mask text parse to the same
\* network for every prefix length 0..32, and the wildcard-mask text does
\* for prefix lengths 1..31; 255.255.255.255 and 0.0.0.0 are read as subnet
\* masks, so the wildcard text of /0 gives the /32 host and that of /32
\* gives 0.0.0.0/0.
C4_ThreeNotations ==
    CidrCase =>
        /\ parse_input(Text(FALSE, cidr.left, " ", MaskOf(cidr.right[1]))) = net
        /\ cidr.right[1] \in 1..31 =>
            parse_input(Text(FALSE, cidr.left, " ", WildcardOf(cidr.right[1]))) = net
        /\ cidr.right[1] = 0 =>
            parse_input(Text(FALSE, cidr.left, " ", WildcardOf(0)))
                = Network(AddrOf(cidr.left), 32)
        /\ cidr.right[1] = 32 =>
            parse_input(Text(FALSE, cidr.left, " ", WildcardOf(32)))
                = Network(<<0, 0>>, 0)

\* "a/30" parsed, and "a 255.255.255.252" and "a 0.0.0.3" parse to it too.
C4_Witness ==
    /\ CidrCase
    /\ cidr.right[1] = 30
    /\ net # None
    /\ net.address # AddrOf(cidr.left)
    /\ parse_input(Text(FALSE, cidr.left, " ", <<255, 255, 255, 252>>)) = net
    /\ parse_input(Text(FALSE, cidr.left, " ", <<0, 0, 0, 3>>)) = net

\* format_ipcalc has returned a record.
HasRecord == Rendered /\ net # None /\ result # None

\* The rows of the record marked as the current network.
CurrentRows == {k \in 1..Len(result.all_nets) : result.all_nets[k].is_current}

\* The page on which the network's own row falls.
OwnPage == (result.current_index \div ITEMS_PER_PAGE) + 1

\* C5: when the parent's prefix is shorter, total_subnets is
\* 2^(prefixlen - parent prefixlen), current_index is the network's offset in
\* the parent divided by its size, and whenever the network's own page lies
\* in the window exactly one row is marked current: the row of the network's
\* base address, at index current_index.
C5_CurrentRow ==
    (HasRecord /\ get_parent_network(net).prefixlen < net.prefixlen) =>
        /\ result.total_subnets
            = 2^(net.prefixlen - get_parent_network(net).prefixlen)
        /\ result.current_index
            = AsInt(Sub32(net.address, get_parent_network(net).address))
                \div 2^(32 - net.prefixlen)
        /\ (OwnPage >= result.window_start_page /\ OwnPage <= result.window_end_page) =>
            /\ Cardinality(CurrentRows) = 1
            /\ \A k \in CurrentRows :
                /\ result.all_nets[k].network = string_from_ip_int(net.address)
                /\ result.all_nets[k].index = result.current_index

\* A page other than the network's own was asked for, the window still
\* reaches the own page, and the current row is in it.
C5_Witness ==
    /\ HasRecord
    /\ result.show_subnet_list
    /\ result.total_subnets = 256
    /\ result.current_page # OwnPage
    /\ OwnPage >= result.window_start_page
    /\ OwnPage <= result.window_end_page
    /\ Cardinality(CurrentRows) = 1

\* The page text writes the integer n.
PageDenotes(pg, n) ==
    \/ n >= 0 /\ pg = DecimalText(n)
    \/ n >= 0 /\ pg = <<"+">> \o DecimalText(n)
    \/ n <= 0 /\ pg = <<"-">> \o DecimalText(0 - n)

\* C6: for every integer page asked for, 0, negative and past the end
\* included, 1 <= window_start_page <= current_page <= window_end_page <=
\* total_pages, current_page is the page asked for clamped to
\* [1, total_pages], and the window is current_page - 10 .. current_page + 10
\* cut to [1, total_pages].
C6_PageWindow ==
    HasRecord =>
        /\ 1 <= result.window_start_page
        /\ result.window_start_page <= result.current_page
        /\ result.current_page <= result.window_end_page
        /\ result.window_end_page <= result.total_pages
        /\ result.window_start_page = Max(1, result.current_page - PAGES_BEFORE_AFTER)
        /\ result.window_end_page
            = Min(result.total_pages, result.current_page + PAGES_BEFORE_AFTER)
        /\ \A n \in (0 - MaxPageText)..MaxPageText :
            PageDenotes(page, n) =>
                result.current_page = Max(1, Min(n, result.total_pages))

\* Page 0 was asked for in a list of 13 pages and page 1 was served.
C6_Witness ==
    /\ HasRecord
    /\ page = <<"0">>
    /\ result.total_pages = 13
    /\ result.current_page = 1
    /\ result.window_end_page = 11

\* The dotted tokens that are prefixlen ones then zeros, or the complement.
MaskPatterns == {MaskOf(p) : p \in 0..32} \cup {WildcardOf(p) : p \in 0..32}

\* The input is empty, or its address is malformed or out of range, or its
\* mask token is a 32-bit pattern that is no mask and no wildcard.
InvalidInput ==
    \/ cidr = EmptyText
    \/ ~ValidAddr(cidr.left)
    \/ cidr.sep \in {"/", " "} /\ ValidAddr(cidr.right) /\ cidr.right \notin MaskPatterns

\* C7: for empty input, a malformed or out-of-range address and a mask
\* pattern that is neither contiguous nor the complement of a contiguous one,
\* parse_input returns None and index() renders the generic error and no
\* record.
C7_InvalidInput ==
    (Rendered /\ InvalidInput) =>
        /\ net = None
        /\ result = None
        /\ error = ErrorMessage

\* A well-formed address with the mask 255.0.255.0 or the like was refused.
C7_Witness ==
    /\ Rendered
    /\ cidr.sep = " "
    /\ ValidAddr(cidr.left)
    /\ ValidAddr(cidr.right)
    /\ cidr.right \notin MaskPatterns
    /\ net = None
    /\ result = None
    /\ error = ErrorMessage

\* The number written by f"{n:,}", as a pair.
RECURSIVE GroupsValue(_)
GroupsValue(g) ==
    IF g = <<>> THEN <<0, 0>>
    ELSE AddInt(<<GroupsValue(SubSeq(g, 1, Len(g) - 1))[1] * 1000, 0>>,
                GroupsValue(SubSeq(g, 1, Len(g) - 1))[2] * 1000 + g[Len(g)])

\* C8: for prefix lengths up to 30, hosts_usable is 2^(32-p) - 2, host_min
\* is the network address + 1 and host_max the broadcast address - 1, so
\* that host_max - host_min + 1 = hosts_usable; for /31 and /32 host_min and
\* host_max are the network address and hosts_usable is 0.
C8_HostRange ==
    HasRecord =>
        IF net.prefixlen <= 30
        THEN /\ GroupsValue(result.hosts_usable) = SubInt(BlockSize(net.prefixlen), 2)
             /\ result.host_min = string_from_ip_int(AddInt(net.address, 1))
             /\ result.host_max
                 = string_from_ip_int(SubInt(LastOf(net.address, net.prefixlen), 1))
             /\ AddInt(Sub32(AddrOf(result.host_max), AddrOf(result.host_min)), 1)
                 = GroupsValue(result.hosts_usable)
        ELSE /\ result.host_min = string_from_ip_int(net.address)
             /\ result.host_max = string_from_ip_int(net.address)
             /\ result.hosts_usable = <<0>>

\* A /31 reported its own address twice and no usable host.
C8_Witness ==
    /\ HasRecord
    /\ net.prefixlen = 31
    /\ result.host_min = result.network
    /\ result.host_max = result.network
    /\ result.hosts_usable = <<0>>

\* The index range the window is to hold.
WindowFrom == (result.window_start_page - 1) * ITEMS_PER_PAGE
WindowTo == Min(result.total_subnets, result.window_end_page * ITEMS_PER_PAGE)

\* Row k of the window is the sibling of index from + k - 1 of parent.
RowIsSibling(parent, from, k) ==
    /\ result.all_nets[k].index = from + k - 1
    /\ result.all_nets[k].network
        = string_from_ip_int(
            AddInt(parent.address, (from + k - 1) * 2^(32 - net.prefixlen)))
    /\ result.all_nets[k].page = ((from + k - 1) \div ITEMS_PER_PAGE) + 1
    /\ Le32(parent.address, AddrOf(result.all_nets[k].range[1]))
    /\ Le32(AddrOf(result.all_nets[k].range[1]), AddrOf(result.all_nets[k].range[2]))
    /\ Le32(AddrOf(result.all_nets[k].range[2]),
            LastOf(parent.address, parent.prefixlen))

RowsAreSiblings(parent, from) ==
    \A k \in 1..Len(result.all_nets) : RowIsSibling(parent, from, k)

\* C9: all_nets never holds more than 20 * 21 = 420 rows, and when the
\* siblings are listed it holds exactly the indices from
\* (window_start_page - 1) * 20 up to, not including,
\* min(total_subnets, window_end_page * 20), in ascending order, each with
\* the network address parent + i * 2^(32 - prefixlen), page i div 20 + 1 and
\* a range inside the parent.
C9_Window ==
    HasRecord =>
        /\ Len(result.all_nets) <= ITEMS_PER_PAGE * (2 * PAGES_BEFORE_AFTER + 1)
        /\ result.show_subnet_list =>
            /\ Len(result.all_nets) = Max(0, WindowTo - WindowFrom)
            /\ RowsAreSiblings(get_parent_network(net), WindowFrom)

\* A window that starts after page 1 and holds fewer rows than there are
\* siblings.
C9_Witness ==
    /\ HasRecord
    /\ result.show_subnet_list
    /\ result.total_subnets = 256
    /\ result.window_start_page = 3
    /\ Len(result.all_nets) = 216
    /\ result.all_nets[1].index = 40

\* The page text is what int() reads: an optional sign and digits.
IsIntText(pg) ==
    /\ pg # <<>>
    /\ IF pg[1] \in {"+", "-"}
       THEN Len(pg) > 1 /\ \A i \in 2..Len(pg) : IsDigit(pg[i])
       ELSE \A i \in 1..Len(pg) : IsDigit(pg[i])

\* C10: when the page is empty or is no integer, format_ipcalc still
\* returns its record, current_page is the network's own page
\* (current_index div 20) + 1, and the window holds the network's row, marked
\* current.
C10_PageFallback ==
    (Rendered /\ net # None /\ ~IsIntText(page)) =>
        /\ result # None
        /\ result.current_page = OwnPage
        /\ \E k \in 1..Len(result.all_nets) :
            /\ result.all_nets[k].is_current
            /\ result.all_nets[k].network = string_from_ip_int(net.address)

\* The page "x" was asked for and the network's own page, the last of 13,
\* was served.
C10_Witness ==
    /\ HasRecord
    /\ page = <<"x">>
    /\ result.total_pages = 13
    /\ result.current_page = 13
    /\ Cardinality(CurrentRows) = 1

====
